---- MODULE Spec2Model ----
(***************************************************************************)
(* Model of the service-ca-operator:                                       *)
(*   - the operator's status aggregation (serviceCAOperator.syncStatus),   *)
(*   - the ConfigMap CA bundle injection controller (Key / Sync),          *)
(*   - the generic reconciliation loop and work queue that drive Key/Sync. *)
(***************************************************************************)
EXTENDS Integers, Naturals, Sequences, FiniteSets, TLC

(***************************************************************************)
(* Bounds of the model.                                                    *)
(***************************************************************************)
MaxDeployments == 2
MaxReplicas == 1
MaxGeneration == 1
MaxRequeues == 1

Nil == "nil"

(***************************************************************************)
(* State.                                                                  *)
(***************************************************************************)
\* Status aggregation.
VARIABLES
    conditions,   \* operatorConfig.Status.Conditions, by condition type
    last          \* what the latest syncStatus call was given and returned

statusVars == <<conditions, last>>

\* CA bundle injection into one ConfigMap.
VARIABLES
    ca,        \* ic.ca, the CA bundle the controller was constructed with
    cmStore,   \* the ConfigMap as the API server holds it
    cmCache,   \* the ConfigMap as the lister (informer cache) holds it
    syncs,     \* the latest Sync calls since the ConfigMap was last written
               \* by someone else, oldest first
    lastOp     \* the step taken last: a Sync call, or a step around it

injectorVars == <<ca, cmStore, cmCache, syncs, lastOp>>

\* The reconciliation loop over several ConfigMaps.
VARIABLES
    configMaps,   \* the ConfigMaps, as the store and the lister hold them
    wq,           \* the work queue
    workers       \* what each worker of the loop is at

loopVars == <<configMaps, wq, workers>>

(***************************************************************************)
(* Part I.  Status aggregation.                                            *)
(***************************************************************************)
ConditionTypes == {"Available", "Progressing", "Failing"}

\* Errors a Deployments(...).Get can return besides NotFound.
FetchErrors == {"Timeout", "InternalError"}

\* What Get(dep) yields: an error, or a deployment object.  The fields are
\* those syncStatus reads; specReplicas is <<>> for a nil Spec.Replicas and
\* <<r>> for a pointer to r.  Status counts obey the deployment controller's
\* own accounting: updated and available replicas are among the replicas.
DeploymentObjects ==
    { d \in [ deletionTimestamp : BOOLEAN,
              generation : 1..MaxGeneration,
              specReplicas : {<<>>} \cup { <<r>> : r \in 0..MaxReplicas },
              observedGeneration : 0..MaxGeneration,
              replicas : 0..MaxReplicas,
              updatedReplicas : 0..MaxReplicas,
              availableReplicas : 0..MaxReplicas ] :
        /\ d.updatedReplicas <= d.replicas
        /\ d.availableReplicas <= d.replicas
        /\ d.observedGeneration >= d.generation - 1 }

GetResults ==
    [ err : {"NotFound"} \cup FetchErrors ] \cup
    { [ err |-> Nil, obj |-> d ] : d \in DeploymentObjects }

\* A condition type that has not been set yet.
NoCondition == [ status |-> "Unset", reason |-> <<>>, message |-> <<>> ]

\* v1helpers.SetOperatorCondition: the condition of that type is replaced.
SetOperatorCondition(conds, cond) ==
    [ conds EXCEPT ![cond.type] = [ status |-> cond.status,
                                    reason |-> cond.reason,
                                    message |-> cond.message ] ]

setFailingTrue(conds, reason, message) ==
    SetOperatorCondition(conds, [ type |-> "Failing", status |-> "True",
                                  reason |-> reason, message |-> message ])

setFailingFalse(conds, reason) ==
    SetOperatorCondition(conds, [ type |-> "Failing", status |-> "False",
                                  reason |-> reason, message |-> <<>> ])

setProgressingTrue(conds, reason, message) ==
    SetOperatorCondition(conds, [ type |-> "Progressing", status |-> "True",
                                  reason |-> reason, message |-> message ])

setAvailableTrue(conds, reason) ==
    SetOperatorCondition(conds, [ type |-> "Available", status |-> "True",
                                  reason |-> reason, message |-> <<>> ])

setProgressingFalse(conds, reason, message) ==
    SetOperatorCondition(conds, [ type |-> "Progressing", status |-> "False",
                                  reason |-> reason, message |-> message ])

setAvailableFalse(conds, reason, message) ==
    SetOperatorCondition(conds, [ type |-> "Available", status |-> "False",
                                  reason |-> reason, message |-> message ])

\* Mutant: a deployment with no available replica passes the check.
isDeploymentStatusAvailableNonNegative(deploy) ==
    deploy.availableReplicas >= 0

isDeploymentStatusAvailable(deploy) ==
    deploy.availableReplicas > 0

isDeploymentStatusAvailableAndUpdated(deploy) ==
    /\ deploy.availableReplicas > 0
    /\ deploy.observedGeneration >= deploy.generation
    /\ deploy.updatedReplicas = deploy.replicas

DesiredReplicas(deploy) ==
    IF deploy.specReplicas # <<>> THEN deploy.specReplicas[1] ELSE 1

isDeploymentStatusComplete(deploy) ==
    /\ deploy.updatedReplicas = DesiredReplicas(deploy)
    /\ deploy.replicas = DesiredReplicas(deploy)
    /\ deploy.availableReplicas = DesiredReplicas(deploy)
    /\ deploy.observedGeneration >= deploy.generation

\* fmt.Sprintf of the status messages: the text and the deployment it names.
Msg(text, dep) == <<"Deployment", dep, text>>
ErrMsg(dep) == <<"Error getting deployment", dep>>
NoMsg == <<>>

\* The locals of syncStatus before the loop.
syncStatusStart(conds) ==
    [ conds |-> conds,
      version_ready |-> 0,
      existingDeploymentsAndReplicas |-> 0,
      deployment_complete |-> 0,
      statusMsg |-> NoMsg,
      returned |-> FALSE,
      reported |-> FALSE,
      err |-> Nil,
      gets |-> 0,
      branch |-> "loop" ]

\* Mutant: the early return reports the deployment as a failure too.
NotReadyReturnSetsFailing(st, statusMsg) ==
    [ st EXCEPT
        !.statusMsg = statusMsg,
        !.conds = setAvailableFalse(
                      setProgressingTrue(
                          setFailingTrue(st.conds, <<"ManagedDeploymentsNotReady">>, statusMsg),
                          <<"ManagedDeploymentsNotReady">>, statusMsg),
                      <<"ManagedDeploymentsNotReady">>, statusMsg),
        !.returned = TRUE,
        !.reported = FALSE,
        !.err = Nil ]

\* An early return from inside the loop, Progressing=True and Available=False.
NotReadyReturn(st, statusMsg) ==
    [ st EXCEPT
        !.statusMsg = statusMsg,
        !.conds = setAvailableFalse(
                      setProgressingTrue(st.conds, <<"ManagedDeploymentsNotReady">>, statusMsg),
                      <<"ManagedDeploymentsNotReady">>, statusMsg),
        !.returned = TRUE,
        !.reported = FALSE,
        !.err = Nil ]

\* Mutant: the Get error is reported as Progressing and not returned.
GetErrorReturnSwallowed(st, dep, err) ==
    NotReadyReturn(st, ErrMsg(dep))

\* The early return for a Get error other than NotFound.
GetErrorReturn(st, dep, err) ==
    [ st EXCEPT
        !.statusMsg = ErrMsg(dep),
        !.conds = setAvailableFalse(
                      setFailingTrue(st.conds, ErrMsg(dep), <<err>>),
                      <<"ManagedDeploymentsNotReady">>, ErrMsg(dep)),
        !.returned = TRUE,
        !.reported = FALSE,
        !.err = err ]

\* Mutant: every counted deployment is counted version-ready.
CountDeploymentAllVersionReady(st, dep, existing) ==
    LET s1 == [ st EXCEPT !.existingDeploymentsAndReplicas = @ + 1,
                          !.version_ready = @ + 1 ]
    IN  IF isDeploymentStatusComplete(existing)
          THEN [ s1 EXCEPT !.deployment_complete = @ + 1 ]
          ELSE [ s1 EXCEPT !.statusMsg = Msg("is creating replicas.", dep) ]

\* The counting half of the loop body, for a deployment that passed the checks.
CountDeployment(st, dep, existing) ==
    LET s1 == [ st EXCEPT !.existingDeploymentsAndReplicas = @ + 1 ]
        s2 == IF isDeploymentStatusComplete(existing)
                THEN [ s1 EXCEPT !.deployment_complete = @ + 1 ]
                ELSE [ s1 EXCEPT !.statusMsg = Msg("is creating replicas.", dep) ]
    IN  IF isDeploymentStatusAvailableAndUpdated(existing)
          THEN [ s2 EXCEPT !.version_ready = @ + 1 ]
          ELSE [ s2 EXCEPT !.statusMsg = Msg("is updating", dep) ]

\* Mutant: a deployment that is being deleted is passed over.
syncStatusDeploymentSkipsDeleted(st, dep, got) ==
    LET s0 == [ st EXCEPT !.gets = @ + 1 ] IN
    IF got.err # Nil
      THEN IF got.err = "NotFound"
             THEN NotReadyReturn(s0, Msg("does not exist", dep))
             ELSE GetErrorReturn(s0, dep, got.err)
      ELSE IF got.obj.deletionTimestamp
             THEN s0
             ELSE IF ~isDeploymentStatusAvailable(got.obj)
                    THEN NotReadyReturn(s0, Msg("does not have available replicas", dep))
                    ELSE CountDeployment(s0, dep, got.obj)

\* One iteration of the loop over deployments: got is what Get(dep) returned.
syncStatusDeployment(st, dep, got) ==
    LET s0 == [ st EXCEPT !.gets = @ + 1 ] IN
    IF got.err # Nil
      THEN IF got.err = "NotFound"
             THEN NotReadyReturn(s0, Msg("does not exist", dep))
             ELSE GetErrorReturn(s0, dep, got.err)
      ELSE IF got.obj.deletionTimestamp
             THEN NotReadyReturn(s0, Msg("is being deleted", dep))
             ELSE IF ~isDeploymentStatusAvailable(got.obj)
                    THEN NotReadyReturn(s0, Msg("does not have available replicas", dep))
                    ELSE CountDeployment(s0, dep, got.obj)

\* Mutant: the loop goes on after a deployment that disqualifies.
RECURSIVE syncStatusLoopNoShortCircuit(_, _, _, _)
syncStatusLoopNoShortCircuit(st, deployments, get, i) ==
    IF i > Len(deployments)
      THEN st
      ELSE syncStatusLoopNoShortCircuit(
               syncStatusDeployment(st, deployments[i], get[i]),
               deployments, get, i + 1)

\* The loop: deployments in list order, stopping at the first return.
RECURSIVE syncStatusLoop(_, _, _, _)
syncStatusLoop(st, deployments, get, i) ==
    IF st.returned \/ i > Len(deployments)
      THEN st
      ELSE syncStatusLoop(syncStatusDeployment(st, deployments[i], get[i]),
                          deployments, get, i + 1)

\* Mutant: the lowest tier reports the version too.
syncStatusTiersExistingReports(st, total) ==
    IF st.existingDeploymentsAndReplicas = total
      THEN [ st EXCEPT
               !.conds = setProgressingTrue(
                             setAvailableTrue(st.conds, <<"ManagedDeploymentsAvailable">>),
                             <<"ManagedDeploymentsAvailable">>, st.statusMsg),
               !.returned = TRUE, !.reported = TRUE, !.err = Nil ]
      ELSE [ st EXCEPT !.returned = TRUE, !.reported = FALSE, !.err = Nil ]

\* Mutant: the version-ready tier is tested before the complete tier.
syncStatusTiersVersionReadyFirst(st, total) ==
    IF st.version_ready = total
      THEN [ st EXCEPT
               !.conds = setProgressingTrue(
                             setAvailableTrue(st.conds, <<"ManagedDeploymentsAvailableAndUpdated">>),
                             <<"ManagedDeploymentsAvailableAndUpdated">>, st.statusMsg),
               !.returned = TRUE, !.reported = TRUE, !.err = Nil ]
    ELSE IF st.deployment_complete = total
      THEN [ st EXCEPT
               !.conds = setProgressingFalse(
                             setAvailableTrue(st.conds, <<"ManagedDeploymentsCompleteAndUpdated">>),
                             <<"ManagedDeploymentsCompleteAndUpdated">>,
                             <<"All service-ca-operator deployments updated">>),
               !.returned = TRUE, !.reported = TRUE, !.err = Nil ]
    ELSE IF st.existingDeploymentsAndReplicas = total
      THEN [ st EXCEPT
               !.conds = setProgressingTrue(
                             setAvailableTrue(st.conds, <<"ManagedDeploymentsAvailable">>),
                             <<"ManagedDeploymentsAvailable">>, st.statusMsg),
               !.returned = TRUE, !.reported = FALSE, !.err = Nil ]
    ELSE [ st EXCEPT !.returned = TRUE, !.reported = FALSE, !.err = Nil ]

\* Mutant: the complete tier clears the Failing condition.
syncStatusTiersClearsFailing(st, total) ==
    IF st.deployment_complete = total
      THEN [ st EXCEPT
               !.conds = setFailingFalse(
                             setProgressingFalse(
                                 setAvailableTrue(st.conds, <<"ManagedDeploymentsCompleteAndUpdated">>),
                                 <<"ManagedDeploymentsCompleteAndUpdated">>,
                                 <<"All service-ca-operator deployments updated">>),
                             <<"ManagedDeploymentsCompleteAndUpdated">>),
               !.branch = "complete",
               !.returned = TRUE, !.reported = TRUE, !.err = Nil ]
    ELSE IF st.version_ready = total
      THEN [ st EXCEPT
               !.conds = setProgressingTrue(
                             setAvailableTrue(st.conds, <<"ManagedDeploymentsAvailableAndUpdated">>),
                             <<"ManagedDeploymentsAvailableAndUpdated">>, st.statusMsg),
               !.branch = "versionReady",
               !.returned = TRUE, !.reported = TRUE, !.err = Nil ]
    ELSE IF st.existingDeploymentsAndReplicas = total
      THEN [ st EXCEPT
               !.conds = setProgressingTrue(
                             setAvailableTrue(st.conds, <<"ManagedDeploymentsAvailable">>),
                             <<"ManagedDeploymentsAvailable">>, st.statusMsg),
               !.branch = "existing",
               !.returned = TRUE, !.reported = FALSE, !.err = Nil ]
    ELSE [ st EXCEPT !.branch = "otherwise",
                     !.returned = TRUE, !.reported = FALSE, !.err = Nil ]

\* The tier decision after the loop.
syncStatusTiers(st, total) ==
    IF st.deployment_complete = total
      THEN [ st EXCEPT
               !.conds = setProgressingFalse(
                             setAvailableTrue(st.conds, <<"ManagedDeploymentsCompleteAndUpdated">>),
                             <<"ManagedDeploymentsCompleteAndUpdated">>,
                             <<"All service-ca-operator deployments updated">>),
               !.branch = "complete",
               !.returned = TRUE, !.reported = TRUE, !.err = Nil ]
    ELSE IF st.version_ready = total
      THEN [ st EXCEPT
               !.conds = setProgressingTrue(
                             setAvailableTrue(st.conds, <<"ManagedDeploymentsAvailableAndUpdated">>),
                             <<"ManagedDeploymentsAvailableAndUpdated">>, st.statusMsg),
               !.branch = "versionReady",
               !.returned = TRUE, !.reported = TRUE, !.err = Nil ]
    ELSE IF st.existingDeploymentsAndReplicas = total
      THEN [ st EXCEPT
               !.conds = setProgressingTrue(
                             setAvailableTrue(st.conds, <<"ManagedDeploymentsAvailable">>),
                             <<"ManagedDeploymentsAvailable">>, st.statusMsg),
               !.branch = "existing",
               !.returned = TRUE, !.reported = FALSE, !.err = Nil ]
    ELSE [ st EXCEPT !.branch = "otherwise",
                     !.returned = TRUE, !.reported = FALSE, !.err = Nil ]

\* syncStatus(operatorConfigCopy, deployments), with get[i] the answer of the
\* i-th Get.  The result carries the conditions, the return values and the
\* locals at the return.
syncStatus(conds, deployments, get) ==
    LET st == syncStatusLoop(syncStatusStart(conds), deployments, get, 1)
    IN  IF st.returned THEN st ELSE syncStatusTiers(st, Len(deployments))

\* The deployments argument: the first n managed deployments, by number.
ManagedDeployments(n) == [ i \in 1..n |-> i ]

\* A deployment the loop returns on: the Get failed, the deployment is being
\* deleted, or it has no available replica.
Disqualified(got) ==
    \/ got.err # Nil
    \/ got.obj.deletionTimestamp
    \/ ~isDeploymentStatusAvailable(got.obj)

\* The tiers of one call's input, read off the Get answers themselves.
AllExisting(get) ==
    \A i \in DOMAIN get : ~Disqualified(get[i])
AllVersionReady(get) ==
    \A i \in DOMAIN get :
        ~Disqualified(get[i]) /\ isDeploymentStatusAvailableAndUpdated(get[i].obj)
AllComplete(get) ==
    \A i \in DOMAIN get :
        ~Disqualified(get[i]) /\ isDeploymentStatusComplete(get[i].obj)

\* The first deployment the loop returns on, 0 when there is none.
FirstDisqualified(get) ==
    IF AllExisting(get) THEN 0
    ELSE CHOOSE i \in DOMAIN get :
             /\ Disqualified(get[i])
             /\ \A j \in 1..(i - 1) : ~Disqualified(get[j])

\* Why the loop returns on that deployment, in the order the loop checks.
FirstCause(get) ==
    LET i == FirstDisqualified(get) IN
    IF i = 0 THEN "None"
    ELSE IF get[i].err = "NotFound" THEN "NotFound"
    ELSE IF get[i].err # Nil THEN "GetError"
    ELSE IF get[i].obj.deletionTimestamp THEN "BeingDeleted"
    ELSE "NoAvailableReplicas"

\* Whether the Get of a deployment after that one fails.
LaterFailure(get) ==
    /\ FirstDisqualified(get) # 0
    /\ \E j \in DOMAIN get : j > FirstDisqualified(get) /\ get[j].err \in FetchErrors

NoCall == [ called |-> FALSE ]

\* What is kept of a call: its return values, its locals at the return, and
\* the tiers of its input.
CallRecord(st, get) ==
    [ called |-> TRUE,
      total |-> Len(get),
      reported |-> st.reported,
      err |-> st.err,
      deployment_complete |-> st.deployment_complete,
      version_ready |-> st.version_ready,
      existingDeploymentsAndReplicas |-> st.existingDeploymentsAndReplicas,
      gets |-> st.gets,
      allComplete |-> AllComplete(get),
      allVersionReady |-> AllVersionReady(get),
      allExisting |-> AllExisting(get),
      firstDisqualified |-> FirstDisqualified(get),
      firstCause |-> FirstCause(get),
      laterFailure |-> LaterFailure(get),
      branch |-> st.branch,
      firstErr |-> IF FirstDisqualified(get) = 0 THEN Nil
                   ELSE get[FirstDisqualified(get)].err ]

StatusInit ==
    /\ conditions = [ t \in ConditionTypes |-> NoCondition ]
    /\ last = NoCall

\* One status sync cycle: syncStatus runs on the stored conditions against
\* whatever the deployments are at that time, and the conditions are stored.
SyncStatus ==
    \E n \in 0..MaxDeployments :
        \E get \in [ 1..n -> GetResults ] :
            LET st == syncStatus(conditions, ManagedDeployments(n), get)
            IN  /\ conditions' = st.conds
                /\ last' = CallRecord(st, get)
                /\ UNCHANGED <<injectorVars, loopVars>>


(***************************************************************************)
(* Part II.  ConfigMap CA bundle injection.                                *)
(***************************************************************************)

\* api.InjectionDataKey and another data key a ConfigMap may carry.
InjectionDataKey == "service-ca.crt"
DataKeys == {InjectionDataKey, "other.key"}

\* CA bundles: the one the controller injects is one of them.
CABundles == {"bundle-a", "bundle-b"}

\* ConfigMap.Data: a mapping from some of the keys to values.
DataMaps == UNION { [ ks -> CABundles ] : ks \in SUBSET DataKeys }

\* A ConfigMap, by the fields Sync reads: whether it carries the
\* inject-cabundle annotation, and its Data.
ConfigMapObjects == [ annotated : BOOLEAN, data : DataMaps ]

\* No ConfigMap of that name.
NoObject == [ annotated |-> FALSE, data |-> <<>>, absent |-> TRUE ]

\* api.HasInjectCABundleAnnotation
HasInjectCABundleAnnotation(configMap) == configMap.annotated

\* map[string]string{api.InjectionDataKey: ic.ca}
InjectedData(bundle) == [ k \in {InjectionDataKey} |-> bundle ]

\* Mutant: the test passes on a bundle other than ic.ca.
AlreadyInjectedOtherBundle(configMap, bundle) ==
    /\ InjectionDataKey \in DOMAIN configMap.data
    /\ configMap.data[InjectionDataKey] # bundle
    /\ Cardinality(DOMAIN configMap.data) = 1

\* The test of lines 59-60: the CA bundle is already there, and alone.
AlreadyInjected(configMap, bundle) ==
    /\ InjectionDataKey \in DOMAIN configMap.data
    /\ configMap.data[InjectionDataKey] = bundle
    /\ Cardinality(DOMAIN configMap.data) = 1

\* Mutant: only the injection key is written, the other keys are kept.
ensureConfigMapCABundleInjectionMerging(current, bundle, updateErr) ==
    IF AlreadyInjected(current, bundle)
      THEN [ err |-> Nil, updates |-> 0, submitted |-> NoObject, input |-> current ]
      ELSE [ err |-> updateErr, updates |-> 1, input |-> current,
             submitted |->
                 [ current EXCEPT !.data =
                     [ k \in DOMAIN current.data \cup {InjectionDataKey} |->
                         IF k = InjectionDataKey THEN bundle ELSE current.data[k] ] ] ]

\* Mutant: the error of the Update call is dropped.
ensureConfigMapCABundleInjectionErrDropped(current, bundle, updateErr) ==
    IF AlreadyInjected(current, bundle)
      THEN [ err |-> Nil, updates |-> 0, submitted |-> NoObject, input |-> current ]
      ELSE [ err |-> Nil, updates |-> 1, input |-> current,
             submitted |-> [ current EXCEPT !.data = InjectedData(bundle) ] ]

\* Mutant: no copy is made, configMapCopy is the object that was passed.
ensureConfigMapCABundleInjectionNoCopy(current, bundle, updateErr) ==
    IF AlreadyInjected(current, bundle)
      THEN [ err |-> Nil, updates |-> 0, submitted |-> NoObject, input |-> current ]
      ELSE [ err |-> updateErr, updates |-> 1,
             submitted |-> [ current EXCEPT !.data = InjectedData(bundle) ],
             input |-> [ current EXCEPT !.data = InjectedData(bundle) ] ]

\* Mutant: the Update call is made whether or not the bundle is there.
ensureConfigMapCABundleInjectionAlwaysUpdates(current, bundle, updateErr) ==
    [ err |-> updateErr, updates |-> 1, input |-> current,
      submitted |-> [ current EXCEPT !.data = InjectedData(bundle) ] ]

\* current.DeepCopy(): the two objects after the call, the one passed and a
\* second one with the same content.
DeepCopy(current) == [ current |-> current, configMapCopy |-> current ]

\* ensureConfigMapCABundleInjection(current), with updateErr what the Update
\* call answers if it is made.  The result: the error returned, the number of
\* Update calls made, the copy submitted to Update, and the object that was
\* passed as the call leaves it.
ensureConfigMapCABundleInjection(current, bundle, updateErr) ==
    LET objects == DeepCopy(current) IN
    IF AlreadyInjected(objects.configMapCopy, bundle)
      THEN [ err |-> Nil, updates |-> 0, submitted |-> NoObject,
             input |-> objects.current ]
      ELSE LET assigned == [ objects EXCEPT
                               !.configMapCopy.data = InjectedData(bundle) ]
           IN  [ err |-> updateErr, updates |-> 1,
                 submitted |-> assigned.configMapCopy,
                 input |-> assigned.current ]

\* Mutant: Sync does not look at the annotation.
SyncUnconditional(obj, bundle, updateErr) ==
    ensureConfigMapCABundleInjection(obj, bundle, updateErr)

\* Sync(obj)
Sync(obj, bundle, updateErr) ==
    IF ~HasInjectCABundleAnnotation(obj)
      THEN [ err |-> Nil, updates |-> 0, submitted |-> NoObject, input |-> obj ]
      ELSE ensureConfigMapCABundleInjection(obj, bundle, updateErr)

\* What ConfigMaps(ns).Update(copy) can answer: the store refuses a copy made
\* from a snapshot that is not its current version, and a ConfigMap that is
\* gone; otherwise the write succeeds or fails with a transient error.
UpdateAnswers(stored, snapshotCurrent) ==
    IF stored = NoObject THEN {"NotFound"}
    ELSE IF ~snapshotCurrent THEN {"Conflict"}
    ELSE {Nil, "Timeout"}

\* The informer starts synced with the store; no Sync has run yet.
InjectorInit ==
    /\ ca \in CABundles
    /\ cmStore \in ConfigMapObjects \cup {NoObject}
    /\ cmCache = [ obj |-> cmStore, current |-> TRUE ]
    /\ syncs = <<>>
    /\ lastOp = "Other"

\* The latest two calls are kept.
Remember(calls, call) ==
    IF Len(calls) < 2 THEN Append(calls, call) ELSE <<calls[2], call>>

\* Key found the ConfigMap in the lister and Sync runs on that shared object,
\* which stays in the lister as Sync leaves it.  An Update that succeeds
\* replaces the stored ConfigMap by the copy, and the lister's object is then
\* behind the store.
SyncCall ==
    /\ cmCache.obj # NoObject
    /\ \E updateErr \in UpdateAnswers(cmStore, cmCache.current) :
         LET r == Sync(cmCache.obj, ca, updateErr)
             written == r.updates = 1 /\ updateErr = Nil
         IN  /\ cmStore' = IF written THEN r.submitted ELSE cmStore
             /\ cmCache' = [ obj |-> r.input,
                             current |-> IF written THEN FALSE ELSE cmCache.current ]
             /\ syncs' = Remember(syncs, [ input |-> cmCache.obj,
                                           after |-> r.input,
                                           current |-> cmCache.current,
                                           err |-> r.err,
                                           updates |-> r.updates,
                                           submitted |-> r.submitted ])
    /\ lastOp' = "Sync"
    /\ UNCHANGED ca
    /\ UNCHANGED <<statusVars, loopVars>>

\* The informer catches up with the store.
InformerUpdate ==
    /\ ~cmCache.current
    /\ cmCache' = [ obj |-> cmStore, current |-> TRUE ]
    /\ lastOp' = "Other"
    /\ UNCHANGED <<ca, cmStore, syncs>>
    /\ UNCHANGED <<statusVars, loopVars>>

\* Someone else creates, rewrites or deletes the ConfigMap.
ExternalWrite ==
    /\ \E obj \in ConfigMapObjects \cup {NoObject} :
         /\ ~(obj = NoObject /\ cmStore = NoObject)
         /\ cmStore' = obj
    /\ cmCache' = [ cmCache EXCEPT !.current = FALSE ]
    /\ syncs' = <<>>
    /\ lastOp' = "Other"
    /\ UNCHANGED ca
    /\ UNCHANGED <<statusVars, loopVars>>

(***************************************************************************)
(* Part III.  The reconciliation loop and its work queue, running the      *)
(* injection controller's Key and Sync.                                    *)
(***************************************************************************)

\* The ConfigMaps (namespace/name) and the workers of the loop.
ConfigMapNames == {"ns/cm1", "ns/cm2"}
Workers == {"w1", "w2"}

\* The ConfigMaps the loop is given to work on: annotated ones, lacking the
\* injection or injected.
LoopConfigMaps ==
    { [ annotated |-> TRUE, data |-> <<>> ],
      [ annotated |-> TRUE, data |-> InjectedData("bundle-a") ] }

\* An empty work queue.
EmptyQueue ==
    [ queue |-> <<>>,
      dirty |-> {},
      processing |-> {},
      waiting |-> {},
      requeues |-> [ id \in ConfigMapNames |-> 0 ],
      merged |-> {} ]

InQueue(q, id) == \E i \in 1..Len(q.queue) : q.queue[i] = id

\* Mutant: Add queues the identity even while it is being processed.
AddWhileProcessing(q, id) ==
    IF id \in q.dirty
      THEN [ q EXCEPT !.merged = IF InQueue(q, id) THEN @ \cup {id} ELSE @ ]
      ELSE [ q EXCEPT !.dirty = @ \cup {id}, !.queue = Append(@, id) ]

\* Mutant: Add appends the identity whether or not it is queued already.
AddWithoutMerge(q, id) ==
    IF id \in q.processing
      THEN [ q EXCEPT !.dirty = @ \cup {id} ]
      ELSE [ q EXCEPT !.dirty = @ \cup {id}, !.queue = Append(@, id),
                      !.merged = IF id \in q.dirty THEN @ \cup {id} ELSE @ ]

\* Add(identity): inserts if absent; merges if already queued; an identity
\* being processed is only marked, to be queued again at Done.  merged keeps
\* the queued identities that an Add was merged into.
Add(q, id) ==
    IF id \in q.dirty
      THEN [ q EXCEPT !.merged = IF InQueue(q, id) THEN @ \cup {id} ELSE @ ]
      ELSE IF id \in q.processing
             THEN [ q EXCEPT !.dirty = @ \cup {id} ]
             ELSE [ q EXCEPT !.dirty = @ \cup {id}, !.queue = Append(@, id) ]

\* The dequeue of the head of the queue: it becomes in flight.
Dequeue(q) ==
    [ q EXCEPT !.queue = Tail(@),
               !.processing = @ \cup {Head(q.queue)},
               !.dirty = @ \ {Head(q.queue)},
               !.merged = @ \ {Head(q.queue)} ]

\* Mutant: Done ends the processing and queues nothing.
DoneWithoutRequeue(q, id) == [ q EXCEPT !.processing = @ \ {id} ]

\* Done(identity): the processing is complete; an identity added meanwhile is
\* queued again.
Done(q, id) ==
    IF id \in q.dirty
      THEN [ q EXCEPT !.processing = @ \ {id}, !.queue = Append(@, id) ]
      ELSE [ q EXCEPT !.processing = @ \ {id} ]

\* Forget(identity): the attempt counter is reset.
Forget(q, id) == [ q EXCEPT !.requeues[id] = 0 ]

\* AddRateLimited(identity): the attempt counter grows (the delay it stands
\* for is capped) and the identity is added once the delay has passed.
AddRateLimited(q, id) ==
    [ q EXCEPT !.requeues[id] = IF @ < MaxRequeues THEN @ + 1 ELSE @,
               !.waiting = @ \cup {id} ]

\* The delay of a waiting identity has passed: it is added.
DelayPassed(q, id) == Add([ q EXCEPT !.waiting = @ \ {id} ], id)

\* A worker that holds no item.
IdleWorker ==
    [ pc |-> "Idle", item |-> "none", found |-> FALSE, obj |-> NoObject,
      current |-> FALSE, err |-> Nil, update |-> "NoCall" ]

\* Mutant: Key answers with the empty object where the lister has none.
KeyNeverNotFound(maps, namespaceName) ==
    IF maps[namespaceName] = NoObject
      THEN [ err |-> Nil, obj |-> [ annotated |-> FALSE, data |-> <<>> ] ]
      ELSE [ err |-> Nil, obj |-> maps[namespaceName] ]

\* Key(namespace, name): the lister's Get, NotFound when it has no such
\* ConfigMap.
Key(maps, namespaceName) ==
    IF maps[namespaceName] = NoObject
      THEN [ err |-> "NotFound", obj |-> NoObject ]
      ELSE [ err |-> Nil, obj |-> maps[namespaceName] ]

\* What a call of Key can return: the lister's answer, or the lister's own
\* failure.
KeyAnswers(maps, namespaceName) ==
    { Key(maps, namespaceName), [ err |-> "InternalError", obj |-> NoObject ] }

\* The snapshots workers hold of a ConfigMap fall behind when it is written.
Outdated(ws, id) ==
    [ w \in Workers |->
        IF ws[w].item = id THEN [ ws[w] EXCEPT !.current = FALSE ] ELSE ws[w] ]

LoopInit ==
    /\ configMaps = [ id \in ConfigMapNames |-> NoObject ]
    /\ wq = EmptyQueue
    /\ workers = [ w \in Workers |-> IdleWorker ]

\* Idle: a worker takes the next identity off the queue.
GetItem(w) ==
    /\ workers[w].pc = "Idle"
    /\ wq.queue # <<>>
    /\ wq' = Dequeue(wq)
    /\ workers' = [ workers EXCEPT ![w] =
                      [ IdleWorker EXCEPT !.pc = "Fetching", !.item = Head(wq.queue) ] ]
    /\ UNCHANGED configMaps
    /\ UNCHANGED <<statusVars, injectorVars>>

\* Fetching: Key is called; NotFound goes to Forgetting, another error to
\* BackingOff, an object to Syncing.
FetchItem(w) ==
    /\ workers[w].pc = "Fetching"
    /\ \E got \in KeyAnswers(configMaps, workers[w].item) :
         workers' = [ workers EXCEPT ![w] =
                        [ @ EXCEPT !.pc = IF got.err = "NotFound" THEN "Forgetting"
                                          ELSE IF got.err # Nil THEN "BackingOff"
                                          ELSE "Syncing",
                                   !.found = (configMaps[workers[w].item] # NoObject),
                                   !.obj = got.obj,
                                   !.current = (got.err = Nil),
                                   !.err = got.err ] ]
    /\ UNCHANGED <<configMaps, wq>>
    /\ UNCHANGED <<statusVars, injectorVars>>

\* Syncing: Sync is called on the fetched object.  An Update that succeeds
\* writes the ConfigMap, and the informer's update event adds the identity.
SyncItem(w) ==
    /\ workers[w].pc = "Syncing"
    /\ \E updateErr \in UpdateAnswers(configMaps[workers[w].item], workers[w].current) :
         LET id == workers[w].item
             r == Sync(workers[w].obj, ca, updateErr)
             written == r.updates = 1 /\ updateErr = Nil
             after == [ workers EXCEPT ![w] =
                          [ @ EXCEPT !.pc = IF r.err = Nil THEN "Forgetting"
                                            ELSE "BackingOff",
                                     !.err = r.err,
                                     !.obj = r.input,
                                     !.update = IF r.updates = 1 THEN updateErr
                                                ELSE "NoCall" ] ]
         IN  /\ configMaps' = IF written THEN [ configMaps EXCEPT ![id] = r.submitted ]
                                         ELSE configMaps
             /\ workers' = IF written THEN Outdated(after, id) ELSE after
             /\ wq' = IF written THEN Add(wq, id) ELSE wq
    /\ UNCHANGED <<statusVars, injectorVars>>

\* Forgetting: Forget then Done.
ForgetItem(w) ==
    /\ workers[w].pc = "Forgetting"
    /\ wq' = Done(Forget(wq, workers[w].item), workers[w].item)
    /\ workers' = [ workers EXCEPT ![w] = IdleWorker ]
    /\ UNCHANGED configMaps
    /\ UNCHANGED <<statusVars, injectorVars>>

\* BackingOff: AddRateLimited then Done.
BackOffItem(w) ==
    /\ workers[w].pc = "BackingOff"
    /\ wq' = Done(AddRateLimited(wq, workers[w].item), workers[w].item)
    /\ workers' = [ workers EXCEPT ![w] = IdleWorker ]
    /\ UNCHANGED configMaps
    /\ UNCHANGED <<statusVars, injectorVars>>

\* The backoff delay of an identity has passed.
DelayElapsed(id) ==
    /\ id \in wq.waiting
    /\ wq' = DelayPassed(wq, id)
    /\ UNCHANGED <<configMaps, workers>>
    /\ UNCHANGED <<statusVars, injectorVars>>

\* A ConfigMap is created or rewritten by someone else; the event passes the
\* filter, and the identity is added, when the new object is annotated.
ConfigMapWritten(id) ==
    /\ \E obj \in LoopConfigMaps :
         /\ obj # configMaps[id]
         /\ configMaps' = [ configMaps EXCEPT ![id] = obj ]
         /\ wq' = IF HasInjectCABundleAnnotation(obj) THEN Add(wq, id) ELSE wq
    /\ workers' = Outdated(workers, id)
    /\ UNCHANGED <<statusVars, injectorVars>>

\* A ConfigMap is deleted; no add or update event follows.
ConfigMapDeleted(id) ==
    /\ configMaps[id] # NoObject
    /\ configMaps' = [ configMaps EXCEPT ![id] = NoObject ]
    /\ workers' = Outdated(workers, id)
    /\ UNCHANGED wq
    /\ UNCHANGED <<statusVars, injectorVars>>

\* The informer resyncs an annotated ConfigMap: one more update event.
Resync(id) ==
    /\ configMaps[id] # NoObject
    /\ HasInjectCABundleAnnotation(configMaps[id])
    /\ wq' = Add(wq, id)
    /\ UNCHANGED <<configMaps, workers>>
    /\ UNCHANGED <<statusVars, injectorVars>>

(***************************************************************************)
(* Specifications.  Each part runs on its own; the other parts stay as     *)
(* they are after construction.                                            *)
(***************************************************************************)
vars == <<statusVars, injectorVars, loopVars>>

\* The injection controller of Part II before it is given a ConfigMap.
InjectorIdle ==
    /\ ca = "bundle-a"
    /\ cmStore = NoObject
    /\ cmCache = [ obj |-> NoObject, current |-> TRUE ]
    /\ syncs = <<>>
    /\ lastOp = "Other"

InitStatus == StatusInit /\ InjectorIdle /\ LoopInit

NextStatus == SyncStatus

SpecStatus == InitStatus /\ [][NextStatus]_vars

InitInjector == InjectorInit /\ StatusInit /\ LoopInit

NextInjector ==
    \/ SyncCall
    \/ InformerUpdate
    \/ ExternalWrite

SpecInjector == InitInjector /\ [][NextInjector]_vars

InitLoop == LoopInit /\ StatusInit /\ InjectorIdle

WorkerStep(w) ==
    \/ GetItem(w)
    \/ FetchItem(w)
    \/ SyncItem(w)
    \/ ForgetItem(w)
    \/ BackOffItem(w)

NextLoop ==
    \/ \E w \in Workers : GetItem(w)
    \/ \E w \in Workers : FetchItem(w)
    \/ \E w \in Workers : SyncItem(w)
    \/ \E w \in Workers : ForgetItem(w)
    \/ \E w \in Workers : BackOffItem(w)
    \/ \E id \in ConfigMapNames : DelayElapsed(id)
    \/ \E id \in ConfigMapNames : ConfigMapWritten(id)
    \/ \E id \in ConfigMapNames : ConfigMapDeleted(id)
    \/ \E id \in ConfigMapNames : Resync(id)

SpecLoop == InitLoop /\ [][NextLoop]_vars

\* The workers keep running and the backoff timers fire.
SpecLoopFair ==
    /\ SpecLoop
    /\ \A w \in Workers : WF_vars(WorkerStep(w))
    /\ \A id \in ConfigMapNames : WF_vars(DelayElapsed(id))

\* The lister answers a Key call for identity id.
KeySucceeds(id) ==
    \E w \in Workers :
        /\ workers[w].item = id
        /\ FetchItem(w)
        /\ workers'[w].err # "InternalError"

\* A Sync call on identity id ends without error: no Update was needed, or
\* the store accepted it.
SyncSucceeds(id) ==
    \E w \in Workers :
        /\ workers[w].item = id
        /\ SyncItem(w)
        /\ workers'[w].err = Nil

\* Fair retries, a lister that answers and a store whose Update succeeds in
\* the end: a call that is retried again and again for an identity does not
\* fail forever.
SpecLoopConverging ==
    /\ SpecLoopFair
    /\ \A id \in ConfigMapNames : SF_vars(KeySucceeds(id))
    /\ \A id \in ConfigMapNames : SF_vars(SyncSucceeds(id))

(***************************************************************************)
(* Claims about the status aggregation, checked under SpecStatus.          *)
(***************************************************************************)

\* C1: syncStatus returns true exactly when all deployments are complete or
\* all are version-ready, by its own counts at the return and by the tiers of
\* the deployments it was given; never when only the existing tier holds.
C1_VersionGating ==
    last.called =>
        /\ last.reported <=> ( \/ last.deployment_complete = last.total
                               \/ last.version_ready = last.total )
        /\ last.reported <=> (last.allComplete \/ last.allVersionReady)
        /\ (last.allExisting /\ ~last.allVersionReady /\ ~last.allComplete)
               => ~last.reported

\* C1 witness: two deployments, all version-ready, not all complete, reported.
C1_Witness ==
    /\ last.called
    /\ last.total >= 2
    /\ last.allVersionReady
    /\ ~last.allComplete
    /\ last.reported

\* C9: tier monotonicity: when the complete count equals the number of
\* deployments, so do the version-ready and the existing counts.
C9_TierMonotonicity ==
    last.called =>
        /\ last.deployment_complete = last.total
               => /\ last.version_ready = last.total
                  /\ last.existingDeploymentsAndReplicas = last.total
        /\ last.version_ready = last.total
               => last.existingDeploymentsAndReplicas = last.total
        /\ last.allComplete => (last.allVersionReady /\ last.allExisting)

\* C9 witness: two deployments, both counted complete.
C9_Witness ==
    /\ last.called
    /\ last.total >= 2
    /\ last.deployment_complete = last.total

\* C10: when the Get of a deployment fails with an error other than NotFound,
\* Failing is True with the error as its message, Available is False, and
\* syncStatus returns (false, that error).
C10_GetError ==
    (last.called /\ last.firstErr \in FetchErrors) =>
        /\ conditions["Failing"].status = "True"
        /\ conditions["Failing"].reason = ErrMsg(last.firstDisqualified)
        /\ conditions["Failing"].message = <<last.firstErr>>
        /\ conditions["Available"].status = "False"
        /\ conditions["Available"].message = ErrMsg(last.firstDisqualified)
        /\ ~last.reported
        /\ last.err = last.firstErr

\* C10 witness: the Get of the second deployment fails after the first was
\* counted.
C10_Witness ==
    /\ last.called
    /\ last.firstDisqualified = 2
    /\ last.firstErr \in FetchErrors
    /\ last.err \in FetchErrors

\* The text of the status message of each early return that is no failure.
NotReadyText(cause) ==
    IF cause = "NotFound" THEN "does not exist"
    ELSE IF cause = "BeingDeleted" THEN "is being deleted"
    ELSE "does not have available replicas"

NotReadyCauses == {"NotFound", "BeingDeleted", "NoAvailableReplicas"}

\* C11: in every call whose first disqualifying deployment is NotFound, is
\* being deleted or has no available replica, syncStatus sets Progressing=True
\* and Available=False with a message naming that deployment and the cause,
\* returns (false, nil), and leaves the Failing condition as it was.
C11_NotReadyReturn ==
    [][ (last'.called /\ last'.firstCause \in NotReadyCauses) =>
          LET message == Msg(NotReadyText(last'.firstCause), last'.firstDisqualified)
          IN  /\ conditions'["Progressing"] =
                     [ status |-> "True",
                       reason |-> <<"ManagedDeploymentsNotReady">>,
                       message |-> message ]
              /\ conditions'["Available"] =
                     [ status |-> "False",
                       reason |-> <<"ManagedDeploymentsNotReady">>,
                       message |-> message ]
              /\ ~last'.reported
              /\ last'.err = Nil
              /\ last'.gets = last'.firstDisqualified
              /\ conditions'["Failing"] = conditions["Failing"] ]_vars

\* C11 witness: the second deployment is being deleted, after a first one
\* that was counted, and Failing was not set.
C11_Witness ==
    /\ last.called
    /\ last.firstDisqualified = 2
    /\ last.firstCause = "BeingDeleted"
    /\ conditions["Progressing"].status = "True"
    /\ conditions["Available"].status = "False"
    /\ conditions["Failing"] = NoCondition

C13_ExistingNotReported ==
    (last.called /\ last.allExisting /\ ~last.allVersionReady) =>
        /\ last.existingDeploymentsAndReplicas = last.total
        /\ last.version_ready < last.total
        /\ last.deployment_complete < last.total
        /\ conditions["Available"] =
               [ status |-> "True",
                 reason |-> <<"ManagedDeploymentsAvailable">>,
                 message |-> NoMsg ]
        /\ conditions["Progressing"].status = "True"
        /\ conditions["Progressing"].reason = <<"ManagedDeploymentsAvailable">>
        /\ ~last.reported
        /\ last.err = Nil

\* C13 witness: two deployments, one complete and one available with the
\* rollout unfinished.
C13_Witness ==
    /\ last.called
    /\ last.total = 2
    /\ last.allExisting
    /\ last.deployment_complete = 1
    /\ last.version_ready = 1
    /\ ~last.reported
    /\ conditions["Available"].status = "True"
    /\ conditions["Progressing"].status = "True"

\* C14: in every status sync, after an earlier one over the same deployments,
\* whose deployment fetch fails with an error other than NotFound, Failing is
\* True with that attempt's error as its message and Progressing is True,
\* whatever the conditions were before.
C14_FailurePersists ==
    [][ ( /\ last.called
          /\ last'.called
          /\ last.total >= 1
          /\ last'.total = last.total
          /\ last'.firstCause = "GetError" ) =>
          /\ conditions'["Failing"] =
                 [ status |-> "True",
                   reason |-> ErrMsg(last'.firstDisqualified),
                   message |-> <<last'.firstErr>> ]
          /\ conditions'["Progressing"].status = "True" ]_vars

\* What a call that returns on deployment dep for that cause leaves of the
\* conditions conds, from that deployment alone.
OutcomeOfFirst(conds, dep, cause, err) ==
    IF cause = "GetError"
      THEN setAvailableFalse(setFailingTrue(conds, ErrMsg(dep), <<err>>),
                             <<"ManagedDeploymentsNotReady">>, ErrMsg(dep))
      ELSE setAvailableFalse(
               setProgressingTrue(conds, <<"ManagedDeploymentsNotReady">>,
                                  Msg(NotReadyText(cause), dep)),
               <<"ManagedDeploymentsNotReady">>, Msg(NotReadyText(cause), dep))

\* C15: syncStatus goes through the deployments in list order and returns on
\* the first one that disqualifies: that one is the last fetched, and the
\* conditions and the return values follow from it alone, whatever the
\* deployments after it are, a failing one included.
C15_ShortCircuit ==
    [][ (last'.called /\ last'.firstDisqualified # 0) =>
          /\ last'.gets = last'.firstDisqualified
          /\ last'.existingDeploymentsAndReplicas = last'.firstDisqualified - 1
          /\ last'.branch = "loop"
          /\ conditions' = OutcomeOfFirst(conditions, last'.firstDisqualified,
                                          last'.firstCause, last'.firstErr)
          /\ ~last'.reported
          /\ last'.err = IF last'.firstCause = "GetError" THEN last'.firstErr
                         ELSE Nil ]_vars

\* C15 witness: the first of two deployments does not exist and the Get of
\* the second would fail; only the first was fetched, nil is returned and
\* Failing is not set.
C15_Witness ==
    /\ last.called
    /\ last.total = 2
    /\ last.firstDisqualified = 1
    /\ last.firstCause = "NotFound"
    /\ last.laterFailure
    /\ last.gets = 1
    /\ last.err = Nil
    /\ conditions["Failing"] = NoCondition

\* C19: the final return of syncStatus is never reached: a loop that ends
\* without a return has counted every deployment as existing, so one of the
\* three tiers is taken and Available=True is set; an empty list takes the
\* complete tier and true is returned.
C19_OtherwiseUnreachable ==
    last.called =>
        /\ last.branch # "otherwise"
        /\ (last.branch = "loop") <=> (last.firstDisqualified # 0)
        /\ last.branch # "loop" =>
               /\ last.existingDeploymentsAndReplicas = last.total
               /\ last.gets = last.total
               /\ conditions["Available"].status = "True"
        /\ last.total = 0 => (last.branch = "complete" /\ last.reported)

\* C19 witness: a loop over two deployments ends without a return and only
\* the lowest tier holds.
C19_Witness ==
    /\ last.called
    /\ last.total = 2
    /\ last.gets = 2
    /\ last.branch = "existing"
    /\ last.existingDeploymentsAndReplicas = 2
    /\ last.version_ready = 0
    /\ conditions["Available"].status = "True"

\* C20: syncStatus writes the Failing condition only when a Get fails with
\* an error other than NotFound, and then sets it True; in every other call
\* Failing is left as it was, and it is never set False: a complete cycle
\* after a failed one leaves Failing True.
C20_FailingOnlyOnGetError ==
    /\ [](conditions["Failing"].status # "False")
    /\ [][ last'.called =>
              IF last'.firstCause = "GetError"
                THEN conditions'["Failing"].status = "True"
                ELSE conditions'["Failing"] = conditions["Failing"] ]_vars

\* C20 witness: a complete cycle, with Failing still True from a cycle
\* before it.
C20_Witness ==
    /\ last.called
    /\ last.total >= 1
    /\ last.branch = "complete"
    /\ last.reported
    /\ conditions["Available"].status = "True"
    /\ conditions["Progressing"].status = "False"
    /\ conditions["Failing"].status = "True"

(***************************************************************************)
(* Claims about the CA bundle injection, checked under SpecInjector.       *)
(***************************************************************************)

\* C2, as stated: two Sync calls in a row on the same input, an annotated
\* ConfigMap that lacks the injection, the first call ending without error,
\* make exactly one Update call, the second call making none.
C2_SameInputOneUpdate ==
    ( /\ Len(syncs) = 2
      /\ syncs[1].input = syncs[2].input
      /\ HasInjectCABundleAnnotation(syncs[1].input)
      /\ ~AlreadyInjected(syncs[1].input, ca)
      /\ syncs[1].err = Nil )
    => /\ syncs[1].updates + syncs[2].updates = 1
       /\ syncs[2].updates = 0

\* C2, amended: when the second of two Sync calls in a row runs on the object
\* as the first call's successful Update left it, the second call makes no
\* Update call and the two calls make exactly one; on the same, unrefreshed
\* input the second call makes the Update call again.
C2_RefreshedInputOneUpdate ==
    Len(syncs) = 2 =>
        /\ ( /\ syncs[1].updates = 1
             /\ syncs[1].err = Nil
             /\ syncs[2].input = syncs[1].submitted )
           => /\ syncs[2].updates = 0
              /\ syncs[2].err = Nil
              /\ syncs[1].updates + syncs[2].updates = 1
        /\ (syncs[2].input = syncs[1].input /\ syncs[1].updates = 1)
           => syncs[2].updates = 1

\* C2 witness: the first call updated a ConfigMap with a stale bundle and an
\* extra key, the second ran on the refreshed object.
C2_Witness ==
    /\ Len(syncs) = 2
    /\ syncs[1].updates = 1
    /\ syncs[1].err = Nil
    /\ Cardinality(DOMAIN syncs[1].input.data) = 2
    /\ syncs[2].input = syncs[1].submitted
    /\ syncs[2].updates = 0

\* The latest Sync call, and the object as that call leaves it: the copy it
\* submitted to Update, or its input when it made no Update call.
LatestSync == syncs[Len(syncs)]
LeftBySync(call) == IF call.updates = 1 THEN call.submitted ELSE call.input

\* C3, as stated: right after a Sync of an annotated object that ended
\* without error, the data of the ConfigMap in the store (if it still is
\* there) is exactly the injection key with the current CA bundle.
C3_StoreInjectedAfterSync ==
    ( /\ lastOp = "Sync"
      /\ HasInjectCABundleAnnotation(LatestSync.input)
      /\ LatestSync.err = Nil
      /\ cmStore # NoObject )
    => /\ Cardinality(DOMAIN cmStore.data) = 1
       /\ cmStore.data = InjectedData(ca)

\* C3, amended: right after such a Sync the object as Sync leaves it has
\* exactly the injection key with the current CA bundle, whatever its data
\* was; and the stored ConfigMap is that object whenever an Update was made
\* or the object passed was the store's current version.
C3_ObjectInjectedAfterSync ==
    ( /\ lastOp = "Sync"
      /\ HasInjectCABundleAnnotation(LatestSync.input)
      /\ LatestSync.err = Nil )
    => /\ Cardinality(DOMAIN LeftBySync(LatestSync).data) = 1
       /\ LeftBySync(LatestSync).data = InjectedData(ca)
       /\ HasInjectCABundleAnnotation(LeftBySync(LatestSync))
       /\ (LatestSync.updates = 1 \/ LatestSync.current)
              => cmStore = LeftBySync(LatestSync)

\* C3 witness: a successful Update of a ConfigMap that held a stale bundle
\* and an extra key.
C3_Witness ==
    /\ lastOp = "Sync"
    /\ HasInjectCABundleAnnotation(LatestSync.input)
    /\ LatestSync.err = Nil
    /\ LatestSync.updates = 1
    /\ Cardinality(DOMAIN LatestSync.input.data) = 2
    /\ LatestSync.input.data[InjectionDataKey] # ca
    /\ cmStore.data = InjectedData(ca)

\* C4: a Sync of an object without the annotation returns nil and makes no
\* Update call, whatever the object's data.
C4_NoAnnotationNoUpdate ==
    (lastOp = "Sync" /\ ~HasInjectCABundleAnnotation(LatestSync.input))
    => /\ LatestSync.err = Nil
       /\ LatestSync.updates = 0
       /\ LeftBySync(LatestSync) = LatestSync.input

\* C4 witness: a Sync of an unannotated ConfigMap that holds a stale bundle
\* and an extra key.
C4_Witness ==
    /\ lastOp = "Sync"
    /\ ~HasInjectCABundleAnnotation(LatestSync.input)
    /\ Cardinality(DOMAIN LatestSync.input.data) = 2
    /\ LatestSync.input.data[InjectionDataKey] # ca
    /\ LatestSync.updates = 0

\* C16: Sync never changes the object it is passed: after every call (no
\* annotation, already injected, Update succeeded, Update failed) the object
\* in the lister has the data and the annotation it had before the call, and
\* only the copy submitted to Update carries the new data.
C16_InputNotMutated ==
    /\ \A i \in 1..Len(syncs) :
          /\ syncs[i].after = syncs[i].input
          /\ syncs[i].updates = 1 =>
                 /\ syncs[i].submitted.data = InjectedData(ca)
                 /\ syncs[i].submitted.annotated = syncs[i].input.annotated
                 /\ syncs[i].submitted # syncs[i].after
          /\ syncs[i].updates = 0 => syncs[i].submitted = NoObject
    /\ lastOp = "Sync" =>
          /\ cmCache.obj = LatestSync.input
          /\ cmCache.obj.data = LatestSync.input.data
          /\ HasInjectCABundleAnnotation(cmCache.obj)
                 = HasInjectCABundleAnnotation(LatestSync.input)

\* C16 witness: an Update that succeeded on a copy, the lister's object still
\* holding the stale bundle and the extra key while the store holds the
\* injected data.
C16_Witness ==
    /\ lastOp = "Sync"
    /\ LatestSync.updates = 1
    /\ LatestSync.err = Nil
    /\ Cardinality(DOMAIN cmCache.obj.data) = 2
    /\ cmCache.obj.data[InjectionDataKey] # ca
    /\ cmCache.obj = LatestSync.input
    /\ cmStore = LatestSync.submitted
    /\ cmStore.data = InjectedData(ca)

(***************************************************************************)
(* Claims about the reconciliation loop, checked under SpecLoop and        *)
(* SpecLoopFair.                                                           *)
(***************************************************************************)

Busy(w) == workers[w].pc # "Idle"
Occurrences(id) == Cardinality({ i \in 1..Len(wq.queue) : wq.queue[i] = id })

\* C5: no two workers are at work on the same identity at any time.
C5_OneInFlightPerIdentity ==
    \A w1, w2 \in Workers :
        (w1 # w2 /\ Busy(w1) /\ Busy(w2)) => workers[w1].item # workers[w2].item

\* C5 witness: an identity is added again while its Sync is in flight and
\* another worker is idle.
C5_Witness ==
    \E w1, w2 \in Workers :
        /\ workers[w1].pc = "Syncing"
        /\ workers[w1].item \in wq.dirty
        /\ workers[w2].pc = "Idle"

\* C6: however many times an identity is added before it is dequeued, the
\* queue holds it once, and once it is dequeued nothing of it is left in the
\* queue: one work item, one dequeue.
C6_Deduplication ==
    \A id \in ConfigMapNames :
        /\ Occurrences(id) <= 1
        /\ id \in wq.merged => Occurrences(id) = 1
        /\ Occurrences(id) = 1 => (id \in wq.dirty /\ id \notin wq.processing)
        /\ (id \in wq.processing /\ id \notin wq.dirty) => Occurrences(id) = 0
        /\ Cardinality({ w \in Workers : Busy(w) /\ workers[w].item = id })
               = IF id \in wq.processing THEN 1 ELSE 0

\* C6 witness: an identity added several times before any dequeue, queued once.
C6_Witness ==
    \E id \in ConfigMapNames :
        /\ id \in wq.merged
        /\ wq.queue = <<id>>
        /\ \A w \in Workers : ~Busy(w)

\* What the loop does with the result of Key and of Sync, as a state
\* predicate: an error other than NotFound puts the worker in BackingOff, and
\* a failed Update call is such an error.
FailuresBackOff ==
    \A w \in Workers :
        /\ (Busy(w) /\ workers[w].err \notin {Nil, "NotFound"})
               => workers[w].pc = "BackingOff"
        /\ workers[w].update \notin {"NoCall", Nil}
               => /\ workers[w].pc = "BackingOff"
                  /\ workers[w].err = workers[w].update

\* An identity with failed attempts on its counter is waiting for its delay,
\* queued, or in flight.
FailedItemsKept ==
    \A id \in ConfigMapNames :
        wq.requeues[id] > 0 => id \in (wq.waiting \cup wq.dirty \cup wq.processing)

BackingOffOn(id) ==
    \E w \in Workers : workers[w].pc = "BackingOff" /\ workers[w].item = id
FetchingOn(id) ==
    \E w \in Workers : workers[w].pc = "Fetching" /\ workers[w].item = id

\* C7: an item whose Key or Sync failed with an error other than NotFound
\* (a failed Update call included) goes through BackingOff, is never
\* dropped, and is fetched again.
C7_FailedItemsRetried ==
    /\ [](FailuresBackOff /\ FailedItemsKept)
    /\ \A id \in ConfigMapNames : BackingOffOn(id) ~> FetchingOn(id)

\* C7 witness: a worker backing off after an Update call that failed, on an
\* identity that has failed before.
C7_Witness ==
    \E w \in Workers :
        /\ workers[w].pc = "BackingOff"
        /\ workers[w].update = "Timeout"
        /\ wq.requeues[workers[w].item] > 0

\* C8: when Key finds no object, the worker goes to Forgetting without
\* calling Sync; leaving Forgetting resets the attempt counter, starts no
\* backoff delay and ends the processing.
C8_NotFoundForgotten ==
    /\ [](\A w \in Workers :
            /\ (Busy(w) /\ workers[w].pc # "Fetching" /\ ~workers[w].found
                        /\ workers[w].err # "InternalError")
                   => /\ workers[w].err = "NotFound"
                      /\ workers[w].pc = "Forgetting"
                      /\ workers[w].update = "NoCall"
            /\ workers[w].pc = "Syncing" => workers[w].found)
    /\ [][\A w \in Workers :
            ( /\ workers[w].pc = "Forgetting"
              /\ workers[w].err = "NotFound"
              /\ workers'[w] # workers[w] )
            => /\ workers'[w].pc = "Idle"
               /\ wq'.requeues[workers[w].item] = 0
               /\ wq'.waiting = wq.waiting
               /\ workers[w].item \notin wq'.processing]_vars

\* C8 witness: Key found no object for an identity that had failed before.
C8_Witness ==
    \E w \in Workers :
        /\ workers[w].pc = "Forgetting"
        /\ workers[w].err = "NotFound"
        /\ wq.requeues[workers[w].item] > 0

\* An identity that was added while it is in flight.
AddedInFlight(id) == id \in wq.processing /\ id \in wq.dirty

\* The identity has been dequeued afresh and its object is about to be read.
FetchingAfresh(id) == FetchingOn(id) /\ id \notin wq.dirty

\* C17: an event for an identity whose Sync is in flight is kept as a mark
\* and starts no second Sync; when the worker calls Done the identity is
\* queued again, it is eventually dequeued once more, and the Sync that
\* follows is given the object as the lister holds it then.
C17_EventDuringSync ==
    /\ [](\A id \in ConfigMapNames :
            AddedInFlight(id) =>
                /\ ~InQueue(wq, id)
                /\ Cardinality({ w \in Workers : Busy(w) /\ workers[w].item = id }) = 1)
    /\ [][\A id \in ConfigMapNames :
            (AddedInFlight(id) /\ id \notin wq'.processing) =>
                /\ wq'.queue = Append(wq.queue, id)
                /\ id \in wq'.dirty]_vars
    /\ [][\A w \in Workers :
            (workers[w].pc = "Fetching" /\ workers'[w].pc = "Syncing") =>
                /\ workers'[w].obj = configMaps[workers[w].item]
                /\ workers'[w].current]_vars
    /\ \A id \in ConfigMapNames : AddedInFlight(id) ~> FetchingAfresh(id)

\* C17 witness: a ConfigMap was written by someone else while its Sync was in
\* flight: the worker is past Sync with the object it had fetched, the
\* identity is marked and not queued, and the other worker is idle.
C17_Witness ==
    \E w1, w2 \in Workers :
        /\ workers[w1].pc = "Forgetting"
        /\ workers[w1].update = "NoCall"
        /\ workers[w1].found
        /\ AddedInFlight(workers[w1].item)
        /\ configMaps[workers[w1].item] # workers[w1].obj
        /\ configMaps[workers[w1].item] # NoObject
        /\ workers[w2].pc = "Idle"

\* The ConfigMap is there with the annotation; it holds exactly the current
\* CA bundle under the injection key, or it does not.
Annotated(id) ==
    configMaps[id] # NoObject /\ HasInjectCABundleAnnotation(configMaps[id])
Injected(id) == Annotated(id) /\ configMaps[id].data = InjectedData(ca)
NeedsInjection(id) == Annotated(id) /\ configMaps[id].data # InjectedData(ca)

\* C18: with fair retries and a store whose Update succeeds in the end, an
\* annotated ConfigMap that lacks the injection comes to hold exactly
\* {injection key: current CA} unless it is deleted; once it does, no Sync of
\* the loop changes it, and a Sync on the refreshed object makes no Update
\* call.
C18_Convergence ==
    /\ \A id \in ConfigMapNames :
          NeedsInjection(id) ~> (Injected(id) \/ configMaps[id] = NoObject)
    /\ [][\A w \in Workers :
            ( /\ workers[w].pc = "Syncing"
              /\ workers'[w].pc # "Syncing"
              /\ Injected(workers[w].item) ) =>
                /\ configMaps' = configMaps
                /\ workers[w].obj = configMaps[workers[w].item]
                       => /\ workers'[w].update = "NoCall"
                          /\ workers'[w].pc = "Forgetting"]_vars

\* C18 witness: a worker past a Sync whose Update the store accepted after
\* an earlier failure, the ConfigMap now injected.
C18_Witness ==
    \E w \in Workers :
        /\ workers[w].pc = "Forgetting"
        /\ workers[w].update = Nil
        /\ workers[w].obj.data # InjectedData(ca)
        /\ wq.requeues[workers[w].item] > 0
        /\ Injected(workers[w].item)

====
